---- MODULE Spec2Model ----
(***************************************************************************)
(* Model of the extraction pipeline of json_api_to_parquet_pipeline:       *)
(* extract / process_date / get_http_response (app/src/extractor.py).      *)
(* One coroutine step (the code between two awaits) is one action.         *)
(***************************************************************************)
EXTENDS Integers, Sequences, FiniteSets, TLC

(* ---------------- bounds ---------------- *)
\* the dates up to yesterday that a run can ask for
NumDates == 2
\* the calls of extract in a sequence of runs, and the --days of each
MaxRuns == 2
RerunDays == 1
\* http_configs (config.py; both default to 5), scaled down
max_concurrent_requests == 1
retries == 2
\* http_configs.delay and http_configs.backoff (config.py)
delay == 3
backoff == 3

Dates == 1..NumDates

\* the pipeline processes that run at the same time
NumRuns == 2
Runs == 1..NumRuns

(* ---------------- payloads and fingerprints ---------------- *)
\* A JSON object is the sequence of its (key, value) pairs in insertion
\* order (a dict keeps it); a value is a number or again an object.
Num(n) == [atom |-> n]
Obj(o) == [obj |-> o]
IsObject(v) == "obj" \in DOMAIN v

\* the keys and the numbers of the objects considered
MaxValue == 2
Keys == {1, 2}
Atoms == { Num(n) : n \in 1..MaxValue }

None == <<>>
Payloads ==
    { <<<<2, Num(1)>>, <<1, Num(1)>>>>,
      <<<<1, Num(1)>>, <<2, Num(1)>>>>,
      <<<<1, Num(2)>>, <<2, Num(1)>>>> }

\* variant: the pair is appended, the keys are left in insertion order
InsertByKey_unsorted(kv, s) == s \o <<kv>>

RECURSIVE InsertByKey(_, _)
InsertByKey(kv, s) ==
    IF s = <<>> THEN <<kv>>
    ELSE IF kv[1] <= Head(s)[1] THEN <<kv>> \o s
    ELSE <<Head(s)>> \o InsertByKey(kv, Tail(s))

\* `json.dumps(.., sort_keys=True)`: the pairs of the object sorted by key,
\* and so those of every object nested in it
RECURSIVE json_dumps_sort_keys(_)
json_dumps_sort_keys(p) ==
    IF p = <<>> THEN <<>>
    ELSE LET k == Head(p)[1]
             v == Head(p)[2]
             dumped == IF IsObject(v) THEN Obj(json_dumps_sort_keys(v.obj))
                       ELSE v
         IN InsertByKey(<<k, dumped>>, json_dumps_sort_keys(Tail(p)))

\* sha256 is taken to be collision free: a digest is represented by the
\* canonical serialization it was computed from.
get_remote_json_hash(json_content) == json_dumps_sort_keys(json_content)

\* what the API serves for every date when the pipeline is first run
FirstPayload == <<<<2, Num(1)>>, <<1, Num(1)>>>>

\* what it served before, and what it may come to serve
OlderPayload == <<<<1, Num(2)>>, <<2, Num(2)>>>>
NewerPayload == <<<<1, Num(2)>>, <<2, Num(1)>>>>

Hashes == { get_remote_json_hash(p) : p \in Payloads }

(* ---------------- exceptions ---------------- *)
NoError == [cls |-> "none", message |-> <<"", 0>>]
ClientResponseError(status) ==
    [cls |-> "ClientResponseError", message |-> <<"HTTP Error: ", status>>]
ClientConnectionError ==
    [cls |-> "ClientConnectionError", message |-> <<"Cannot connect", 0>>]
TimeoutError == [cls |-> "TimeoutError", message |-> <<"", 0>>]
MaximumRetryException(url) ==
    [cls |-> "MaximumRetryException",
     message |-> <<"Max retries reached for URL: ", url>>]

\* the classes caught by `except ClientError`
IsClientError(cls) ==
    cls \in {"ClientResponseError", "ClientConnectionError",
             "ContentTypeError", "MaximumRetryException"}

Statuses == {200, 429, 500}

\* what one `session.get(url)` can bring: a response with a status, a
\* transport error (a ClientError), or a timeout (not a ClientError)
Responses ==
    { [kind |-> "status", status |-> s] : s \in Statuses }
    \cup { [kind |-> "ClientConnectionError", status |-> 0],
           [kind |-> "TimeoutError", status |-> 0] }

check_response(status) ==
    IF status # 200 THEN ClientResponseError(status) ELSE NoError

\* the exception, if any, raised by the try body of one loop iteration
TryGet(resp) ==
    CASE resp.kind = "status" -> check_response(resp.status)
      [] resp.kind = "ClientConnectionError" -> ClientConnectionError
      [] OTHER -> TimeoutError

\* variant: every ClientError is taken for a rate limit
IsRateLimited_any(e) == TRUE

\* `"HTTP Error: 429" in str(e)`
IsRateLimited(e) == e.message = <<"HTTP Error: ", 429>>

(* ---------------- state ---------------- *)
VARIABLES
    run,              \* number of extract calls started
    all_dates,        \* the date range of the running extract call
    pcE,              \* position of extract
    pool,             \* the asyncpg pool: "none", "open", "closed"
    remote,           \* the payload the API serves for each date in this run
    prevRemote,       \* the payload it served in the previous run
    prevReturned,     \* the previous run of extract processed its dates and returned
    storeAtStart,     \* metadata_tbl as it was when this run started
    sem,              \* free permits of the semaphore
    pc,               \* position of each process_date task
    attempt,          \* loop variable of get_http_response
    httpCalls,        \* session.get calls answered so far in the task's running
                      \* get_http_response (0 when it is not running)
    last,             \* what the task's latest session.get brought
    json_data,        \* the decoded payload of each task
    outcome,          \* how each task ended
    err,              \* the exception that ended the task (or was swallowed)
    metaFault,        \* the insert/update of the task raised PostgresError
    wrote,            \* number of files written by the task
    store,            \* metadata_tbl: file_date -> hash
    staged,           \* the file.json this run wrote for each date (open(.., "w")
                      \* replaces the file of an earlier run, which is never read)
    json_to_download, \* the dates of the dictionary extract returns
    http_configs,     \* the configuration the process runs with (the field
                      \* that differs between the specifications)
    init_delay,       \* local of get_http_response (0 when it is not running)
    remote_hash,      \* the fingerprint computed by each task
    queries,          \* the statements each task sent to metadata_db
    dirs,             \* os.makedirs returned for the directory of the date
    timed,            \* the date whose get_http_response call is timed (0: none)
    slept,            \* the time the timed call has spent in asyncio.sleep
    \* --- calls of get_remote_json_hash on its own ---
    payload,          \* a JSON object as it was first built
    reordered,        \* the same object with keys inserted in another order
    fp_payload,       \* the fingerprints returned for payload, one per call
    fp_reordered,     \* the fingerprint last returned for reordered
    \* --- runs of the pipeline at the same time, for one and the same date ---
    served,           \* the payload the API serves for the date
    table,            \* the committed rows of metadata_tbl for the date
    disk,             \* the content of the file.json of the date
    job               \* the process_date task of each run

extractVars == <<run, all_dates, pcE, pool, remote, prevRemote, prevReturned,
                 storeAtStart, sem, pc, attempt, httpCalls, last, json_data,
                 outcome, err, metaFault, wrote, store, staged,
                 json_to_download, http_configs, init_delay, remote_hash,
                 queries, dirs, timed, slept>>

hashVars == <<payload, reordered, fp_payload, fp_reordered>>

runsVars == <<served, table, disk, job>>

vars == <<extractVars, hashVars, runsVars>>

taskVars == <<pc, attempt, httpCalls, last, json_data, outcome, err, metaFault,
              wrote, init_delay, remote_hash, queries, dirs>>

\* no object has been given to get_remote_json_hash on its own
HashIdle ==
    /\ payload = <<>>
    /\ reordered = <<>>
    /\ fp_payload = <<>>
    /\ fp_reordered = <<>>

\* extract has not been called yet, metadata_tbl holds st
ExtractIdle(st) ==
    /\ run = 0
    /\ all_dates = {}
    /\ pcE = "idle"
    /\ pool = "none"
    /\ remote = [d \in Dates |-> FirstPayload]
    /\ prevRemote = remote
    /\ prevReturned = FALSE
    /\ store = st
    /\ storeAtStart = store
    /\ pc = [d \in Dates |-> "idle"]
    /\ init_delay = [d \in Dates |-> 0]
    /\ remote_hash = [d \in Dates |-> None]
    /\ queries = [d \in Dates |-> <<>>]
    /\ dirs = [d \in Dates |-> FALSE]
    /\ slept = 0
    /\ attempt = [d \in Dates |-> 0]
    /\ httpCalls = [d \in Dates |-> 0]
    /\ last = [d \in Dates |-> "none"]
    /\ json_data = [d \in Dates |-> None]
    /\ outcome = [d \in Dates |-> "pending"]
    /\ err = [d \in Dates |-> "none"]
    /\ metaFault = [d \in Dates |-> FALSE]
    /\ wrote = [d \in Dates |-> 0]
    /\ staged = [d \in Dates |-> None]
    /\ json_to_download = {}

\* the task of a run as process_date starts
NewJob(at) ==
    [pc |-> at, json_data |-> None, remote_hash |-> None, record |-> None,
     pending |-> "none", committed |-> FALSE, staged |-> FALSE]

\* no second run of the pipeline is looked at
RunsIdle ==
    /\ served = FirstPayload
    /\ table = <<>>
    /\ disk = None
    /\ job = [r \in Runs |-> NewJob("idle")]

\* the process is configured with n concurrent requests
Configured(n) ==
    /\ http_configs = [max_concurrent_requests |-> n]
    /\ sem = n

\* the state before extract is called, with metadata_tbl holding st
InitWith(st) ==
    /\ ExtractIdle(st)
    /\ Configured(max_concurrent_requests)
    /\ timed = 0
    /\ HashIdle
    /\ RunsIdle

\* the pipeline is run for the first time: metadata_tbl is empty
FirstInit == InitWith([d \in Dates |-> None])

\* the pipeline is run on a table in which earlier runs left, for each date,
\* no record or the hash of a payload
Init == \E st \in [Dates -> {None} \cup Hashes] : InitWith(st)

(* ---------------- extract ---------------- *)
\* main: the range of the last `days` days, the last of them yesterday
date_range(days) == (NumDates - days + 1)..NumDates

\* variant: the exception of create_pool is logged and not raised again
AfterCreatePool_swallowed(ok) == "gather"

\* lines 117-129: where extract goes on after `await asyncpg.create_pool(..)`
\* returned (ok) or raised: the exception is raised again and ends extract
AfterCreatePool(ok) == IF ok THEN "gather" ELSE "fatal"

\* extract is called for the last `days` days: the date range is expanded
\* and the pool is created.  A failing asyncpg.create_pool is logged and
\* re-raised.  The API serves FirstPayload to the first run; before a later
\* run the payload of any requested date may have changed.
Begin(days) ==
    /\ pcE \in {"idle", "returned", "fatal", "failed"}
    /\ run' = run + 1
    /\ all_dates' = date_range(days)
    /\ prevRemote' = remote
    /\ prevReturned' = (pcE = "returned")
    /\ \E r \in [Dates -> Payloads] :
         /\ \A d \in Dates \ date_range(days) : r[d] = remote[d]
         /\ remote' = IF run = 0 THEN remote ELSE r
    /\ storeAtStart' = store
    /\ json_to_download' = {}
    /\ attempt' = [d \in Dates |-> 0]
    /\ httpCalls' = [d \in Dates |-> 0]
    /\ last' = [d \in Dates |-> "none"]
    /\ json_data' = [d \in Dates |-> None]
    /\ outcome' = [d \in Dates |-> "pending"]
    /\ err' = [d \in Dates |-> "none"]
    /\ metaFault' = [d \in Dates |-> FALSE]
    /\ wrote' = [d \in Dates |-> 0]
    /\ staged' = [d \in Dates |-> None]
    /\ init_delay' = [d \in Dates |-> 0]
    /\ remote_hash' = [d \in Dates |-> None]
    /\ queries' = [d \in Dates |-> <<>>]
    /\ dirs' = [d \in Dates |-> FALSE]
    /\ slept' = 0
    /\ sem' = http_configs.max_concurrent_requests
    /\ UNCHANGED <<http_configs, timed>>
    /\ \E ok \in BOOLEAN :
         /\ pool' = IF ok THEN "open" ELSE "none"
         /\ pcE' = AfterCreatePool(ok)
         /\ pc' = [d \in Dates |->
                     IF AfterCreatePool(ok) = "gather" /\ d \in date_range(days)
                     THEN "wait" ELSE "idle"]
    /\ UNCHANGED store
    /\ UNCHANGED <<hashVars, runsVars>>

\* one call of extract for the whole range
Extract == run = 0 /\ Begin(NumDates)

\* extract is called again and again, each time for the last RerunDays days
Rerun == run < MaxRuns /\ Begin(RerunDays)

\* variant: the unchanged dates are reported too
MergeResults_wrong(outs) == { d \in Dates : outs[d] \in {"staged", "unchanged"} }

\* the dictionary built from the results of gather(return_exceptions=True):
\* only results that are dicts are merged, and {} adds nothing
MergeResults(outs) == { d \in Dates : outs[d] = "staged" }

\* variant: gather is called without return_exceptions
return_exceptions_default == FALSE

\* `asyncio.gather(*tasks, return_exceptions=True)`
return_exceptions == TRUE

\* variant: the wait ends with the first task that finishes
TasksDone_first == \E d \in all_dates : pc[d] = "done"

\* `await asyncio.gather(*tasks, ..)` is over: every task has finished
TasksDone == \A d \in all_dates : pc[d] = "done"

\* gather returns when every task has finished: with return_exceptions an
\* exception of a task is one of the results, without it gather raises it.
\* No task is left to run, so the rest of extract is one step: the results
\* are merged, the session and the pool are closed, the dictionary is
\* returned.
Gather ==
    /\ pcE = "gather"
    /\ TasksDone
    /\ IF ~return_exceptions /\ \E d \in Dates : outcome[d] = "raised"
       THEN /\ pcE' = "failed"
            /\ UNCHANGED <<json_to_download, pool>>
       ELSE /\ json_to_download' = MergeResults(outcome)
            /\ pool' = "closed"
            /\ pcE' = "returned"
    /\ UNCHANGED <<run, all_dates, remote, prevRemote, prevReturned, storeAtStart, sem,
                   taskVars, store, staged, http_configs, timed, slept>>
    /\ UNCHANGED <<hashVars, runsVars>>

(* ---------------- process_date: the fetch ---------------- *)
\* the task ends: it returns {} / {date: path} or lets an exception escape
Finish(d, how, e) ==
    /\ pc' = [pc EXCEPT ![d] = "done"]
    /\ outcome' = [outcome EXCEPT ![d] = how]
    /\ err' = [err EXCEPT ![d] = e]

\* variant: the exception is logged and the task goes on
FetchFailed_fallthrough(d, e) ==
    /\ pc' = [pc EXCEPT ![d] = "tx"]
    /\ err' = [err EXCEPT ![d] = e]
    /\ UNCHANGED outcome

\* an exception e leaves the try block of process_date (lines 172-179):
\* a ClientError is logged and {} returned, anything else escapes
FetchFailed(d, e) ==
    Finish(d, IF IsClientError(e) THEN "failed" ELSE "raised", e)

\* variant: the semaphore admits a task when no permit is free
Acquire_unbounded(d) ==
    /\ pcE = "gather"
    /\ pc[d] = "wait"
    /\ sem' = sem - 1
    /\ pc' = [pc EXCEPT ![d] = "fetch"]
    /\ init_delay' = [init_delay EXCEPT ![d] = delay]
    /\ UNCHANGED <<run, all_dates, pcE, pool, remote, prevRemote, prevReturned,
                   storeAtStart, attempt, httpCalls, last, json_data, outcome,
                   err, metaFault, wrote, store, staged, json_to_download,
                   http_configs, remote_hash, queries, dirs, timed, slept>>
    /\ UNCHANGED <<hashVars, runsVars>>

\* `async with semaphore:` entered
Acquire(d) ==
    /\ pcE = "gather"
    /\ pc[d] = "wait"
    /\ sem > 0
    /\ sem' = sem - 1
    /\ pc' = [pc EXCEPT ![d] = "fetch"]
    /\ init_delay' = [init_delay EXCEPT ![d] = delay]
    /\ UNCHANGED <<run, all_dates, pcE, pool, remote, prevRemote, prevReturned,
                   storeAtStart, attempt, httpCalls, last, json_data, outcome,
                   err, metaFault, wrote, store, staged, json_to_download,
                   http_configs, remote_hash, queries, dirs, timed, slept>>
    /\ UNCHANGED <<hashVars, runsVars>>

\* variant: the loop runs once more
range_retries_wrong(a) == a <= retries

\* `for attempt in range(http_configs.retries)`: is there an iteration for
\* this value of the loop variable
range_retries(a) == a < retries

\* what is seen of a response: its status, or the class of the exception
Seen(resp) == IF resp.kind = "status" THEN ToString(resp.status) ELSE resp.kind

\* variant: the permit is not given back
LeaveFetch_noRelease(d) ==
    /\ sem' = sem
    /\ attempt' = [attempt EXCEPT ![d] = 0]
    /\ httpCalls' = [httpCalls EXCEPT ![d] = 0]
    /\ init_delay' = [init_delay EXCEPT ![d] = 0]

\* get_http_response is left, by return or by an exception: the semaphore
\* is released and the locals of the call are gone
LeaveFetch(d) ==
    /\ sem' = sem + 1
    /\ attempt' = [attempt EXCEPT ![d] = 0]
    /\ httpCalls' = [httpCalls EXCEPT ![d] = 0]
    /\ init_delay' = [init_delay EXCEPT ![d] = 0]

\* variant: the jitter is drawn up to twice the delay
random_uniform_wide(a, b) == a..(2 * b)

\* `random.uniform(a, b)` with a < b, in whole seconds: a + (b - a) * random()
\* with random() in [0, 1)
random_uniform(a, b) == a..(b - 1)

\* variant: the delay is shared by all the calls
Backoff_shared(d) == [x \in Dates |-> init_delay[x] * backoff]

\* variant: the delay grows by addition
Backoff_additive(d) == [init_delay EXCEPT ![d] = @ + backoff]

\* `init_delay *= http_configs.backoff`
Backoff(d) == [init_delay EXCEPT ![d] = @ * backoff]

\* one iteration of the retry loop up to its first suspension or its exit
Attempt(d) ==
    /\ pcE = "gather"
    /\ pc[d] = "fetch"
    /\ \E resp \in Responses :
         LET e == TryGet(resp) IN
         /\ last' = [last EXCEPT ![d] = Seen(resp)]
         /\ IF e = NoError
            THEN \* return response
                 /\ pc' = [pc EXCEPT ![d] = "json"]
                 /\ LeaveFetch(d)
                 /\ UNCHANGED <<outcome, err, slept>>
            ELSE IF IsClientError(e.cls) /\ IsRateLimited(e)
            THEN \* asyncio.sleep(extended_delay), the slot is kept; the
                 \* length of the sleep shows only in the time of a timed call
                 /\ pc' = [pc EXCEPT ![d] = "sleep"]
                 /\ httpCalls' = [httpCalls EXCEPT ![d] = @ + 1]
                 /\ IF d = timed
                    THEN \E jitter \in random_uniform(0, init_delay[d]) :
                           LET extended_delay == init_delay[d] + jitter
                           IN slept' = slept + extended_delay
                    ELSE UNCHANGED slept
                 /\ UNCHANGED <<sem, attempt, outcome, err, init_delay>>
            ELSE \* raise e (or an exception that is no ClientError passes)
                 /\ LeaveFetch(d)
                 /\ FetchFailed(d, e.cls)
                 /\ UNCHANGED slept
    /\ UNCHANGED <<run, all_dates, pcE, pool, remote, prevRemote, prevReturned,
                   storeAtStart,
                   json_data, metaFault, wrote, store, staged,
                   json_to_download, http_configs, remote_hash, queries, dirs,
                   timed>>
    /\ UNCHANGED <<hashVars, runsVars>>

\* the sleep is over: the loop goes on, or is exhausted and
\* MaximumRetryException is raised
Sleep(d) ==
    /\ pcE = "gather"
    /\ pc[d] = "sleep"
    /\ IF range_retries(attempt[d] + 1)
       THEN /\ pc' = [pc EXCEPT ![d] = "fetch"]
            /\ attempt' = [attempt EXCEPT ![d] = @ + 1]
            /\ init_delay' = Backoff(d)
            /\ UNCHANGED <<sem, httpCalls, outcome, err>>
       ELSE /\ LeaveFetch(d)
            /\ FetchFailed(d, MaximumRetryException(d).cls)
    /\ UNCHANGED <<run, all_dates, pcE, pool, remote, prevRemote, prevReturned,
                   storeAtStart, last,
                   json_data, metaFault, wrote, store, staged,
                   json_to_download, http_configs, remote_hash, queries, dirs,
                   timed, slept>>
    /\ UNCHANGED <<hashVars, runsVars>>

\* `json_data = await response.json()`: the body decodes, or the content
\* type is wrong (ContentTypeError, a ClientError), or the body is no JSON
\* (JSONDecodeError, a ValueError).  The fingerprint of the decoded body is
\* computed (line 181) before the task is suspended again.
Json(d) ==
    /\ pcE = "gather"
    /\ pc[d] = "json"
    /\ \E r \in {"ok", "ContentTypeError", "JSONDecodeError"} :
         IF r = "ok"
         THEN /\ json_data' = [json_data EXCEPT ![d] = remote[d]]
              /\ remote_hash' = [remote_hash EXCEPT
                                   ![d] = get_remote_json_hash(remote[d])]
              /\ pc' = [pc EXCEPT ![d] = "tx"]
              /\ UNCHANGED <<outcome, err>>
         ELSE /\ FetchFailed(d, r)
              /\ UNCHANGED <<json_data, remote_hash>>
    /\ UNCHANGED <<run, all_dates, pcE, pool, remote, prevRemote, prevReturned,
                   storeAtStart, sem,
                   attempt, httpCalls, last, metaFault, wrote, store, staged,
                   json_to_download, http_configs, init_delay, queries, dirs,
                   timed, slept>>
    /\ UNCHANGED <<hashVars, runsVars>>

(* ---------------- process_date: the metadata transaction ---------------- *)
\* variant: the stored hash is never taken for equal
IsAlreadyUploaded_never(record, fingerprint) == FALSE

\* variant: any stored record counts, its hash is not compared
IsAlreadyUploaded_any(record, fingerprint) == record # None

\* `record and record.get("hash") == remote_hash`
IsAlreadyUploaded(record, fingerprint) ==
    record # None /\ record = fingerprint

\* the faults of the transaction block: pool.acquire / transaction begin,
\* the SELECT, the INSERT or UPDATE, the COMMIT on leaving the block
TxFaults == {"none", "acquire", "fetchrow", "execute", "commit"}

\* the statement that records the fingerprint: an UPDATE of the record found,
\* an INSERT when none was found
Statement(record) == IF record # None THEN "UPDATE" ELSE "INSERT"

\* lines 183-206.  Within one run every date has its own row, so the block
\* is taken as one step.
\*   acquire : the exception is raised outside any try and escapes
\*   fetchrow: PostgresError is caught, {} is returned
\*   execute : PostgresError is caught and logged, and control falls through
\*             to the file write; the failed statement changed nothing
\*   commit  : the exception escapes, nothing is committed
Transaction(d) ==
    /\ pcE = "gather"
    /\ pc[d] = "tx"
    /\ LET record == store[d]
           uploaded == IsAlreadyUploaded(record, remote_hash[d])
           sent == IF uploaded THEN <<"SELECT">>
                   ELSE <<"SELECT", Statement(record)>>
       IN \E f \in TxFaults :
            CASE f = "acquire" ->
                   /\ Finish(d, "raised", "PoolAcquireError")
                   /\ UNCHANGED <<store, metaFault, queries>>
              [] f = "fetchrow" ->
                   /\ Finish(d, "failed", "PostgresError")
                   /\ queries' = [queries EXCEPT ![d] = <<"SELECT">>]
                   /\ UNCHANGED <<store, metaFault>>
              [] f = "commit" ->
                   /\ Finish(d, "raised", "CommitError")
                   /\ queries' = [queries EXCEPT ![d] = sent]
                   /\ UNCHANGED <<store, metaFault>>
              [] f = "execute" ->
                   /\ ~uploaded
                   /\ metaFault' = [metaFault EXCEPT ![d] = TRUE]
                   /\ err' = [err EXCEPT ![d] = "PostgresError"]
                   /\ pc' = [pc EXCEPT ![d] = "file"]
                   /\ queries' = [queries EXCEPT ![d] = sent]
                   /\ UNCHANGED <<store, outcome>>
              [] OTHER ->
                   /\ queries' = [queries EXCEPT ![d] = sent]
                   /\ IF uploaded
                      THEN /\ Finish(d, "unchanged", "none")
                           /\ UNCHANGED <<store, metaFault>>
                      ELSE /\ store' = [store EXCEPT ![d] = remote_hash[d]]
                           /\ pc' = [pc EXCEPT ![d] = "file"]
                           /\ UNCHANGED <<outcome, err, metaFault>>
    /\ UNCHANGED <<run, all_dates, pcE, pool, remote, prevRemote, prevReturned,
                   storeAtStart, sem,
                   attempt, httpCalls, last, json_data, wrote, staged,
                   json_to_download, http_configs, init_delay, remote_hash,
                   dirs, timed, slept>>
    /\ UNCHANGED <<hashVars, runsVars>>

(* ---------------- process_date: staging the file ---------------- *)
FileFaults == {"none", "makedirs", "open"}

\* variant: the file is written without waiting for the transaction
StoreDone_early(d) == pc[d] \in {"tx", "file"}

\* both `async with` blocks (lines 183-206) have been left
StoreDone(d) == pc[d] = "file"

\* lines 208-232: os.makedirs is outside the try, open/json.dump inside it
WriteFile(d) ==
    /\ pcE = "gather"
    /\ StoreDone(d)
    /\ \E f \in FileFaults :
         CASE f = "makedirs" ->
                /\ Finish(d, "raised", "OSError")
                /\ UNCHANGED <<staged, wrote, dirs>>
           [] f = "open" ->
                /\ Finish(d, "failed", "OSError")
                /\ dirs' = [dirs EXCEPT ![d] = TRUE]
                /\ UNCHANGED <<staged, wrote>>
           [] OTHER ->
                /\ dirs' = [dirs EXCEPT ![d] = TRUE]
                /\ staged' = [staged EXCEPT ![d] = json_data[d]]
                /\ wrote' = [wrote EXCEPT ![d] = @ + 1]
                /\ Finish(d, "staged", err[d])
    /\ UNCHANGED <<run, all_dates, pcE, pool, remote, prevRemote, prevReturned,
                   storeAtStart, sem,
                   attempt, httpCalls, last, json_data, metaFault, store,
                   json_to_download, http_configs, init_delay, remote_hash,
                   queries, timed, slept>>
    /\ UNCHANGED <<hashVars, runsVars>>

(* ---------------- specification ---------------- *)
process_date(d) ==
    \/ Acquire(d)
    \/ Attempt(d)
    \/ Sleep(d)
    \/ Json(d)
    \/ Transaction(d)
    \/ WriteFile(d)

Next ==
    \/ Extract
    \/ Gather
    \/ \E d \in Dates : process_date(d)

\* one call of extract for the whole date range
Spec == Init /\ [][Next]_vars

\* the same under fair scheduling (the event loop runs every task that can
\* run), on a table that holds the hash of the payload served for the dates
\* an earlier run reached (the first k) and no record for the later ones
LiveInit ==
    \E k \in 0..NumDates :
        InitWith([d \in Dates |-> IF d <= k THEN get_remote_json_hash(FirstPayload)
                                  ELSE None])

LiveSpec ==
    /\ LiveInit
    /\ [][Next]_vars
    /\ WF_vars(Gather)
    /\ \A d \in Dates : WF_vars(process_date(d))

RerunNext ==
    \/ Rerun
    \/ Gather
    \/ \E d \in Dates : process_date(d)

\* successive calls of extract, the first on an empty table
RerunSpec == FirstInit /\ [][RerunNext]_vars

\* one call of extract on an empty table, configured with a slot for every
\* date so that all the get_http_response calls can run at once; the sleeps
\* of the call for the first date are timed
BackoffInit ==
    /\ ExtractIdle([d \in Dates |-> None])
    /\ Configured(NumDates)
    /\ timed = 1
    /\ HashIdle
    /\ RunsIdle

BackoffSpec == BackoffInit /\ [][Next]_vars

(* ---------------- two runs of the pipeline, one date ---------------- *)
\* Each run is a process of its own, with its own pool and semaphore: what
\* the runs share is the API, metadata_tbl and the raw data directory.  The
\* steps of process_date are taken one by one here; a transaction is
\* asyncpg's default (READ COMMITTED): a SELECT sees the committed rows, an
\* INSERT or UPDATE waits for a transaction that has written the row of the
\* same date, and COMMIT makes the write visible.

\* file_date is the primary key of metadata_tbl: an INSERT for a date that
\* has a committed row raises UniqueViolationError, a PostgresError
UniqueViolation(rows) == rows # <<>>

ConcurrentInit ==
    /\ ExtractIdle([d \in Dates |-> None])
    /\ Configured(max_concurrent_requests)
    /\ timed = 0
    /\ HashIdle
    /\ served = FirstPayload
    /\ table \in {<<>>, <<get_remote_json_hash(OlderPayload)>>}
    /\ disk = None
    /\ job = [r \in Runs |-> NewJob("fetch")]

\* the API comes to serve another payload for the date
ApiChanges ==
    /\ served = FirstPayload
    /\ served' = NewerPayload
    /\ UNCHANGED <<extractVars, hashVars, table, disk, job>>

\* lines 172-181: the response is fetched and decoded, its hash computed
Fetched(r) ==
    /\ job[r].pc = "fetch"
    /\ job' = [job EXCEPT ![r].pc = "fetchrow",
                          ![r].json_data = served,
                          ![r].remote_hash = get_remote_json_hash(served)]
    /\ UNCHANGED <<extractVars, hashVars, served, table, disk>>

\* lines 183-194: the SELECT returns the committed row, if any; when its
\* hash is the remote hash the task returns {}
Fetchrow(r) ==
    /\ job[r].pc = "fetchrow"
    /\ LET record == IF table = <<>> THEN None ELSE Head(table)
       IN job' = [job EXCEPT
                    ![r].record = record,
                    ![r].pc = IF IsAlreadyUploaded(record, job[r].remote_hash)
                              THEN "done" ELSE "execute"]
    /\ UNCHANGED <<extractVars, hashVars, served, table, disk>>

\* lines 195-206: the UPDATE or INSERT, once no other transaction holds a
\* write on the row of the date.  A PostgresError is caught and logged; the
\* transaction is then aborted and the COMMIT on leaving the block rolls back.
Execute(r) ==
    /\ job[r].pc = "execute"
    /\ \A o \in Runs \ {r} : job[o].pending = "none"
    /\ LET statement == Statement(job[r].record)
       IN job' = [job EXCEPT
                    ![r].pc = "commit",
                    ![r].pending =
                        IF statement = "INSERT" /\ UniqueViolation(table)
                        THEN "none" ELSE statement]
    /\ UNCHANGED <<extractVars, hashVars, served, table, disk>>

\* the transaction block is left: COMMIT
Commit(r) ==
    /\ job[r].pc = "commit"
    /\ table' = CASE job[r].pending = "INSERT" ->
                       Append(table, job[r].remote_hash)
                  [] job[r].pending = "UPDATE" ->
                       [i \in DOMAIN table |-> job[r].remote_hash]
                  [] OTHER -> table
    /\ job' = [job EXCEPT ![r].pc = "file",
                          ![r].committed = (job[r].pending # "none"),
                          ![r].pending = "none"]
    /\ UNCHANGED <<extractVars, hashVars, served, disk>>

\* lines 208-232: file.json of the date is written, {date: path} returned
DumpFile(r) ==
    /\ job[r].pc = "file"
    /\ disk' = job[r].json_data
    /\ job' = [job EXCEPT ![r].pc = "done", ![r].staged = TRUE]
    /\ UNCHANGED <<extractVars, hashVars, served, table>>

ConcurrentNext ==
    \/ ApiChanges
    \/ \E r \in Runs :
         \/ Fetched(r)
         \/ Fetchrow(r)
         \/ Execute(r)
         \/ Commit(r)
         \/ DumpFile(r)

ConcurrentSpec == ConcurrentInit /\ [][ConcurrentNext]_vars

(* ---------------- get_remote_json_hash on its own ---------------- *)
\* the objects with at most one pair per key of Keys and values from V
ObjectsOver(V) ==
    {<<>>}
    \cup { <<<<k, v>>>> : k \in Keys, v \in V }
    \cup { <<<<kv[1], vv[1]>>, <<kv[2], vv[2]>>>> :
             kv \in { x \in Keys \X Keys : x[1] # x[2] }, vv \in V \X V }

\* the JSON objects given to get_remote_json_hash: numbers and objects of
\* numbers as values, in every insertion order
NestedPayloads ==
    ObjectsOver(Atoms \cup { Obj(o) : o \in ObjectsOver(Atoms) })

\* the object with the pairs i and i+1 inserted in the other order
SwapAt(p, i) == [p EXCEPT ![i] = p[i + 1], ![i + 1] = p[i]]

\* the same JSON object with two neighbouring keys, of the object itself or
\* of an object nested in it, inserted in the other order
RECURSIVE Reorderings(_)
Reorderings(p) ==
    { SwapAt(p, i) : i \in 1..(Len(p) - 1) }
    \cup UNION { { [p EXCEPT ![i] = <<p[i][1], Obj(q)>>] :
                      q \in Reorderings(p[i][2].obj) } :
                  i \in { j \in 1..Len(p) : IsObject(p[j][2]) } }

HashInit ==
    /\ ExtractIdle([d \in Dates |-> None])
    /\ Configured(max_concurrent_requests)
    /\ timed = 0
    /\ RunsIdle
    /\ payload \in NestedPayloads
    /\ reordered = payload
    /\ fp_payload = <<>>
    /\ fp_reordered = <<>>

\* a caller builds the same object with its keys in another order
ReorderKeys ==
    /\ reordered' \in Reorderings(reordered)
    /\ UNCHANGED <<extractVars, runsVars, payload, fp_payload, fp_reordered>>

\* get_remote_json_hash(payload) is called, once and once again
HashPayload ==
    /\ Len(fp_payload) < 2
    /\ fp_payload' = Append(fp_payload, get_remote_json_hash(payload))
    /\ UNCHANGED <<extractVars, runsVars, payload, reordered, fp_reordered>>

\* get_remote_json_hash(reordered) is called
HashReordered ==
    /\ fp_reordered' = <<get_remote_json_hash(reordered)>>
    /\ UNCHANGED <<extractVars, runsVars, payload, reordered, fp_payload>>

HashNext == ReorderKeys \/ HashPayload \/ HashReordered

HashSpec == HashInit /\ [][HashNext]_vars

(* ======================== properties ======================== *)
\* the tasks that are inside get_http_response
InFetch == { d \in Dates : pc[d] \in {"fetch", "sleep"} }

\* C1: at most max_concurrent_requests tasks are inside get_http_response
\* (backoff sleeps included) in every reachable state of extract.
C1_BoundedConcurrency == Cardinality(InFetch) <= max_concurrent_requests

\* all slots are taken, one of them by a task in its backoff sleep, and
\* (when there are more dates than slots) a task is kept waiting
C1_Witness ==
    /\ Cardinality(InFetch) = max_concurrent_requests
    /\ \E d \in InFetch : pc[d] = "sleep"
    /\ NumDates > max_concurrent_requests => \E d \in Dates : pc[d] = "wait"

\* a statement of the metadata transaction (SELECT, INSERT or UPDATE) of
\* the task raised PostgresError
StoreFault(d) == err[d] = "PostgresError"

\* what a date that met no fault comes to, from its own inputs alone
Undisturbed(d) ==
    IF IsAlreadyUploaded(storeAtStart[d], get_remote_json_hash(remote[d]))
    THEN outcome[d] = "unchanged" /\ wrote[d] = 0 /\ d \notin json_to_download
    ELSE outcome[d] = "staged" /\ wrote[d] = 1 /\ d \in json_to_download

\* C2: a store-transaction fault for date D (lookup, insert or update)
\* leaves no file staged for D and D absent from the returned dictionary,
\* and every sibling that met no fault ends as it would have without it.
C2_StoreFaultStagesNothing ==
    pcE = "returned" =>
        \A d \in Dates :
            StoreFault(d) =>
                /\ wrote[d] = 0
                /\ staged[d] = None
                /\ d \notin json_to_download
                /\ \A o \in Dates \ {d} : err[o] = "none" => Undisturbed(o)

\* C3: process_date never raises to its caller: every fault while one date
\* is processed ends in the empty result.
C3_NeverRaises == \A d \in Dates : outcome[d] # "raised"

\* C4: no get_http_response call makes more than `retries` attempts; a call
\* whose attempts were all answered 429 makes exactly `retries` attempts and
\* then fails with MaximumRetryException, and only such a call does.
C4_RetryBudget ==
    /\ [](\A d \in Dates :
            /\ httpCalls[d] <= retries
            /\ pc[d] = "fetch" => httpCalls[d] < retries)
    /\ [][\A d \in Dates :
            /\ (pc[d] = "sleep" /\ httpCalls[d] = retries /\ pc'[d] # "sleep")
                   => (pc'[d] = "done" /\ outcome'[d] = "failed"
                       /\ err'[d] = "MaximumRetryException")
            /\ (err'[d] = "MaximumRetryException" /\ err[d] # err'[d])
                   => (pc[d] = "sleep" /\ httpCalls[d] = retries
                       /\ last[d] = "429")]_vars

C4_Witness ==
    \E d \in Dates : pc[d] = "done" /\ err[d] = "MaximumRetryException"

\* C5: only a 429 is retried.  An attempt that brings another error status,
\* a transport error or a timeout ends the call at once with that error: the
\* slot is released, there is no backoff sleep and no further attempt,
\* however many 429 responses came before (on the first attempt: one
\* attempt in all).
C5_OnlyRateLimitRetried ==
    [][\A d \in Dates :
         /\ (pc[d] = "fetch" /\ last'[d] \notin {"200", "429"} /\ pc'[d] # pc[d])
                => /\ pc'[d] = "done"
                   /\ outcome'[d] \in {"failed", "raised"}
                   /\ err'[d] = (IF last'[d] = "500" THEN "ClientResponseError"
                                 ELSE last'[d])
                   /\ sem' = sem + 1
         /\ pc'[d] = "sleep" => last'[d] = "429"
         /\ (pc[d] = "done" /\ run' = run)
                => (pc'[d] = "done" /\ last'[d] = last[d]
                    /\ httpCalls'[d] = httpCalls[d])]_vars

\* a 500 ended a call
C5_Witness ==
    \E d \in Dates :
        /\ pc[d] = "done" /\ last[d] = "500"
        /\ outcome[d] = "failed" /\ err[d] = "ClientResponseError"

\* this run is the second of two successive runs that each processed the dates
SecondRun == run >= 2 /\ prevReturned

\* C6 as stated: for every date processed by two successive runs with an
\* unchanged remote payload, the second run stages no file, leaves the date
\* out of its result and leaves the stored hash as it was.
C6_Idempotence_AsStated ==
    (SecondRun /\ pcE = "returned") =>
        \A d \in Dates :
            remote[d] = prevRemote[d] =>
                /\ wrote[d] = 0
                /\ d \notin json_to_download
                /\ store[d] = storeAtStart[d]

\* the first of the two runs left the fingerprint of its payload stored
FirstRunStored(d) == storeAtStart[d] = get_remote_json_hash(prevRemote[d])

\* C6 (amended): for every date processed by two successive runs with an
\* unchanged remote payload whose fingerprint the first run left stored, the
\* second run at no time writes a file or changes the stored hash, and the
\* date is not in its result.
C6_Idempotence ==
    SecondRun =>
        \A d \in Dates :
            (remote[d] = prevRemote[d] /\ FirstRunStored(d)) =>
                /\ wrote[d] = 0
                /\ staged[d] = None
                /\ d \notin json_to_download
                /\ store[d] = storeAtStart[d]
                /\ outcome[d] # "staged"

\* a second run found a date unchanged
C6_Witness ==
    /\ SecondRun /\ pcE = "returned"
    /\ \E d \in Dates :
         /\ remote[d] = prevRemote[d] /\ FirstRunStored(d)
         /\ outcome[d] = "unchanged"

FingerprintChanged(d) ==
    get_remote_json_hash(remote[d]) # get_remote_json_hash(prevRemote[d])

\* C7 as stated: for every date whose remote fingerprint differs between two
\* successive runs, the second run replaces the stored hash by the new
\* fingerprint and stages exactly one new file.
C7_ChangeDetection_AsStated ==
    (SecondRun /\ pcE = "returned") =>
        \A d \in Dates :
            FingerprintChanged(d) =>
                /\ store[d] = get_remote_json_hash(remote[d])
                /\ wrote[d] = 1

\* C7 (amended): for every date whose remote fingerprint differs between two
\* successive runs, the first of which left its fingerprint stored: the
\* second run never writes more than one file for the date and the stored
\* hash is the old or the new fingerprint; when the date's task meets no
\* fault, the run ends with the new fingerprint stored, exactly one file
\* holding the new payload and the date in its result.
C7_ChangeDetection ==
    SecondRun =>
        \A d \in Dates :
            (FingerprintChanged(d) /\ FirstRunStored(d)) =>
                /\ wrote[d] <= 1
                /\ store[d] \in {storeAtStart[d], get_remote_json_hash(remote[d])}
                /\ (pcE = "returned" /\ err[d] = "none") =>
                       /\ store[d] = get_remote_json_hash(remote[d])
                       /\ wrote[d] = 1
                       /\ staged[d] = remote[d]
                       /\ d \in json_to_download

\* a second run replaced a stored hash and staged the changed payload
C7_Witness ==
    /\ SecondRun /\ pcE = "returned"
    /\ \E d \in Dates :
         /\ FingerprintChanged(d) /\ FirstRunStored(d)
         /\ store[d] # storeAtStart[d]
         /\ wrote[d] = 1 /\ d \in json_to_download

\* the fetch of the task returned a response and its body was decoded
FetchSucceeded(d) == last[d] = "200" /\ json_data[d] # None

\* C8: the dictionary extract returns holds a date iff in this run its fetch
\* succeeded, its fingerprint was new or differed from the stored hash and
\* its file was written; unchanged and failed dates are absent.
C8_ResultIsStagedDates ==
    pcE = "returned" =>
        \A d \in Dates :
            /\ d \in json_to_download <=>
                  /\ FetchSucceeded(d)
                  /\ ~IsAlreadyUploaded(storeAtStart[d],
                                        get_remote_json_hash(json_data[d]))
                  /\ wrote[d] = 1 /\ staged[d] = json_data[d]
            /\ outcome[d] \in {"unchanged", "failed", "raised"}
                  => d \notin json_to_download

\* one date was identical to the stored record and is absent, another was
\* fetched, found new or changed, staged and is present
C8_Witness ==
    /\ pcE = "returned"
    /\ \E d1, d2 \in Dates :
         /\ outcome[d1] = "unchanged" /\ d1 \notin json_to_download
         /\ outcome[d2] = "staged" /\ d2 \in json_to_download

\* C9: once the pool exists no fault of a date makes extract fail: extract
\* returns, and its result holds every date that was staged, whatever
\* happened to the others.
C9_BatchAlwaysReturns ==
    /\ pcE # "failed"
    /\ pcE = "returned" =>
          { d \in Dates : outcome[d] = "staged" } \subseteq json_to_download

\* extract returned the staged date although a task raised
C9_Witness ==
    /\ pcE = "returned"
    /\ \E d1, d2 \in Dates :
         /\ outcome[d1] = "raised"
         /\ outcome[d2] = "staged" /\ d2 \in json_to_download

\* C10: under fair scheduling every started task makes an HTTP attempt and
\* comes to an end, whatever happens to its siblings, and extract returns.
C10_EveryDateAttemptedAndDone ==
    /\ \A d \in Dates : (pc[d] = "wait") ~> (pc[d] # "wait" /\ last[d] # "none")
    /\ \A d \in Dates : (pc[d] = "wait") ~> (pc[d] = "done")
    /\ (pcE = "gather") ~> (pcE = "returned")

\* a task failed in its fetch while a sibling, still waiting for a slot when
\* it failed or not, went on to stage its file
C10_Witness ==
    /\ pcE = "gather"
    /\ \E d1, d2 \in Dates :
         /\ pc[d1] = "done" /\ outcome[d1] = "failed" /\ last[d1] # "200"
         /\ pc[d2] = "done" /\ outcome[d2] = "staged"

\* some pair of the object holds an object whose keys were reordered
NestedReordered ==
    \E i, j \in 1..Len(payload) :
        /\ IsObject(payload[i][2])
        /\ reordered[j][1] = payload[i][1]
        /\ reordered[j][2] # payload[i][2]

\* C15: the fingerprint of a JSON object (nested objects over a bounded set
\* of keys and values) is the fingerprint of the same object with its keys
\* reordered at any nesting level, and every call on the same object returns
\* the same fingerprint.
C15_CanonicalizationInvariance ==
    /\ \A i \in 1..Len(fp_payload) : fp_payload[i] = fp_payload[1]
    /\ (fp_payload # <<>> /\ fp_reordered # <<>>)
           => fp_reordered[1] = fp_payload[1]

\* an object reordered at both levels was fingerprinted, and so was the
\* original, twice
C15_Witness ==
    /\ Len(fp_payload) = 2 /\ fp_reordered # <<>>
    /\ Len(payload) = 2 /\ reordered[1][1] # payload[1][1]
    /\ NestedReordered

\* the task left the metadata store and the filesystem alone
Untouched(d) ==
    /\ queries[d] = <<>>
    /\ store[d] = storeAtStart[d]
    /\ ~dirs[d]
    /\ wrote[d] = 0
    /\ staged[d] = None

\* C11: when the fetch for a date fails in any way (terminal HTTP error,
\* transport error, retry budget exhausted, undecodable body), its task sends
\* no lookup, insert or update, creates no directory and writes no file: as
\* long as a task holds no decoded payload it has touched neither, and a
\* task that ended without one never does.
C11_FetchFailureTouchesNothing ==
    \A d \in Dates :
        /\ json_data[d] = None => Untouched(d)
        /\ (pc[d] = "done" /\ ~FetchSucceeded(d)) =>
               (json_data[d] = None /\ remote_hash[d] = None /\ Untouched(d))

\* one date ran out of retries and touched nothing while its sibling went
\* through the store and the filesystem
C11_Witness ==
    \E d1, d2 \in Dates :
        /\ pc[d1] = "done" /\ err[d1] = "MaximumRetryException" /\ Untouched(d1)
        /\ pc[d2] = "done" /\ queries[d2] # <<>> /\ dirs[d2] /\ wrote[d2] = 1

\* a per-date task of the run has started and not finished
Running(d) == pc[d] \notin {"idle", "done"}

\* C12: in every run of extract the pool is created once, before any
\* per-date task starts, and closed once, after every per-date task has
\* finished, also when tasks failed; no step of a task opens or closes it.
C12_PoolOncePerRun ==
    /\ []((\E d \in Dates : Running(d)) => pool = "open")
    /\ [](pcE = "returned" => pool = "closed")
    /\ [][pool' # pool =>
            \/ /\ pool' \in {"open", "none"} /\ run' = run + 1
               /\ \A d \in Dates : ~Running(d)
            \/ /\ pool = "open" /\ pool' = "closed" /\ run' = run
               /\ \A d \in all_dates : pc[d] = "done"
               /\ pcE' = "returned"]_vars
    /\ [][(run' = run /\ \E d \in Dates : pc'[d] # pc[d]) => pool' = pool]_vars

\* the pool was closed after one task had failed and another had staged
\* its file
C12_Witness ==
    /\ pcE = "returned" /\ pool = "closed"
    /\ \E d1, d2 \in Dates :
         /\ outcome[d1] \in {"failed", "raised"}
         /\ outcome[d2] = "staged"

RECURSIVE Power(_, _)
Power(b, k) == IF k = 0 THEN 1 ELSE b * Power(b, k - 1)

\* the deterministic parts of the first m sleeps of a call
RECURSIVE SumOfDelays(_)
SumOfDelays(m) ==
    IF m = 0 THEN 0 ELSE SumOfDelays(m - 1) + delay * Power(backoff, m - 1)

\* C13: the deterministic part of the sleep after the k-th 429 of a call
\* (k = 0, 1, ...) is delay * backoff^k and the jitter added to it lies in
\* [0, that value); a call answered m times 429 and then 200 returns the
\* response after sleeping at least the sum of delay * backoff^k, k < m.
C13_BackoffSchedule ==
    /\ [](\A d \in InFetch : init_delay[d] = delay * Power(backoff, attempt[d]))
    /\ [](\A d \in InFetch :
            d = timed =>
               /\ pc[d] = "fetch" => slept >= SumOfDelays(attempt[d])
               /\ pc[d] = "sleep" => slept >= SumOfDelays(attempt[d] + 1))
    /\ [][\A d \in Dates :
            /\ (d = timed /\ pc[d] = "fetch" /\ pc'[d] = "sleep") =>
                   /\ slept' - slept >= init_delay[d]
                   /\ slept' - slept < 2 * init_delay[d]
            /\ (d = timed /\ pc[d] = "fetch" /\ pc'[d] = "json") =>
                   /\ last'[d] = "200"
                   /\ httpCalls[d] = attempt[d]
                   /\ slept' >= SumOfDelays(httpCalls[d])
                   /\ slept' < 2 * SumOfDelays(httpCalls[d]) + 1]_vars

\* the timed call was answered 429 as often as the budget allows before a
\* 200, and slept longer than the deterministic parts alone
C13_Witness ==
    /\ timed \in Dates
    /\ pc[timed] = "json" /\ last[timed] = "200"
    /\ slept > SumOfDelays(retries - 1)

\* the 429 responses whose sleep the running call of the task has finished
SleepsDone(d) == IF pc[d] = "sleep" THEN httpCalls[d] - 1 ELSE httpCalls[d]

\* C18: the backoff state is local to each get_http_response call: with
\* several calls running at once, the delay of a call is the configured
\* delay raised by its own 429 responses only, no step of another task
\* changes it, and every call that starts begins from the configured delay.
C18_BackoffStateIsLocal ==
    /\ [](\A d \in InFetch :
            init_delay[d] = delay * Power(backoff, SleepsDone(d)))
    /\ [][\A d \in Dates :
            /\ (init_delay'[d] # init_delay[d] /\ run' = run) => pc'[d] # pc[d]
            /\ (pc[d] = "wait" /\ pc'[d] = "fetch") => init_delay'[d] = delay]_vars

\* a call starts from the configured delay while the call of a sibling,
\* answered 429 once, runs with the raised delay
C18_Witness ==
    \E d1, d2 \in Dates :
        /\ pc[d1] = "fetch" /\ httpCalls[d1] = 0 /\ init_delay[d1] = delay
        /\ pc[d2] = "fetch" /\ httpCalls[d2] = 1
        /\ init_delay[d2] = delay * backoff

\* C14: however two concurrent runs that process the same date interleave,
\* metadata_tbl ends with at most one record for the date, no run replaces
\* a committed hash it has not seen by its own (its lookup being stale by
\* then), and each run stages a file only if its own insert or update was
\* committed.
C14_ConcurrentRunsKeepStoreSound ==
    /\ []((\A r \in Runs : job[r].pc = "done") =>
            /\ Len(table) <= 1
            /\ \A r \in Runs : job[r].staged => job[r].committed)
    /\ [][\A r \in Runs :
            (job[r].pending = "UPDATE" /\ table' # table)
                => Head(table) = job[r].record]_vars

\* C16: within the processing of one date the fetch is over before the
\* fingerprint is computed, the fingerprint is computed before the first
\* statement of the store transaction, and the transaction has ended (no
\* statement and no change of the record follows) before the directory is
\* made and the file written; the steps of different dates interleave freely.
C16_StepsOfADateAreOrdered ==
    /\ [](\A d \in Dates :
            /\ remote_hash[d] # None =>
                   /\ FetchSucceeded(d) /\ d \notin InFetch
                   /\ remote_hash[d] = get_remote_json_hash(json_data[d])
            /\ queries[d] # <<>> => remote_hash[d] # None
            /\ (dirs[d] \/ wrote[d] > 0) => (queries[d] # <<>> /\ pc[d] = "done"))
    /\ [][\A d \in Dates :
            run' = run =>
              /\ remote_hash'[d] # remote_hash[d] =>
                     (pc[d] = "json" /\ last[d] = "200" /\ queries[d] = <<>>)
              /\ queries'[d] # queries[d] =>
                     (pc[d] = "tx" /\ remote_hash[d] # None /\ ~dirs[d]
                      /\ wrote[d] = 0)
              /\ (dirs'[d] # dirs[d] \/ wrote'[d] # wrote[d]) =>
                     (pc[d] = "file" /\ queries[d] # <<>>
                      /\ queries'[d] = queries[d] /\ store'[d] = store[d])
              /\ pc[d] \in {"file", "done"} =>
                     (queries'[d] = queries[d] /\ store'[d] = store[d])]_vars

\* a date has its file written while a date before it in the list, whose
\* fetch was over first, has not begun its store transaction
C16_Witness ==
    \E d1, d2 \in Dates :
        /\ d1 < d2
        /\ pc[d1] = "tx" /\ queries[d1] = <<>>
        /\ pc[d2] = "done" /\ wrote[d2] = 1 /\ Len(queries[d2]) = 2

\* asyncpg.create_pool failed in the running call of extract
PoolCreationFailed == run > 0 /\ pool = "none"

\* C17: when creating the pool fails at the start of extract the failure
\* leaves extract as a fatal error of the run: no per-date task is started,
\* no HTTP request is made, no metadata record is changed, no file is staged
\* and nothing is returned, and the run takes no further step.
C17_PoolFailureIsFatal ==
    /\ [](PoolCreationFailed =>
            /\ pcE = "fatal"
            /\ json_to_download = {}
            /\ sem = http_configs.max_concurrent_requests
            /\ \A d \in Dates :
                  /\ pc[d] = "idle" /\ outcome[d] = "pending"
                  /\ last[d] = "none" /\ httpCalls[d] = 0
                  /\ json_data[d] = None
                  /\ Untouched(d))
    /\ [][(PoolCreationFailed /\ run' = run) => UNCHANGED extractVars]_vars
    /\ [][pcE' = "fatal" => (pool' = "none" /\ run' = run + 1)]_vars

\* the pool could not be created for a run over a table that holds records
C17_Witness ==
    /\ PoolCreationFailed /\ pcE = "fatal"
    /\ \E d \in Dates : store[d] # None

\* the run committed an insert or update of the record of the date
CommittedHash(d) == store[d] # storeAtStart[d]

\* C19: after a run of extract metadata and staging agree for every date:
\* if the run committed an insert or update of hash h for the date, it also
\* staged the file holding the payload with fingerprint h and the date is in
\* the returned dictionary.
C19_MetadataAgreesWithStaging ==
    pcE = "returned" =>
        \A d \in Dates :
            CommittedHash(d) =>
                /\ wrote[d] = 1
                /\ staged[d] # None
                /\ get_remote_json_hash(staged[d]) = store[d]
                /\ d \in json_to_download

\* C20: admission slots are conserved: the free permits of the semaphore and
\* the tasks inside get_http_response always add up to
\* max_concurrent_requests; a task keeps its slot from its first attempt
\* through its backoff sleeps and gives it back on every way out of the
\* fetch, so all the permits are free when extract returns.
C20_PermitsConserved ==
    /\ [](sem + Cardinality(InFetch) = http_configs.max_concurrent_requests)
    /\ [](http_configs.max_concurrent_requests = max_concurrent_requests)
    /\ [](pcE = "returned" => sem = max_concurrent_requests)
    /\ [][\A d \in Dates :
            run' = run =>
              /\ (pc[d] = "wait" /\ pc'[d] # "wait") =>
                     (pc'[d] = "fetch" /\ sem > 0 /\ sem' = sem - 1)
              /\ (d \in InFetch /\ pc'[d] \in {"fetch", "sleep"}
                     /\ pc'[d] # pc[d]) => sem' = sem
              /\ (d \in InFetch /\ pc'[d] \notin {"fetch", "sleep"}) =>
                     sem' = sem + 1]_vars

\* extract returned with all permits free after one call had run out of
\* retries and another had returned its response
C20_Witness ==
    /\ pcE = "returned" /\ sem = max_concurrent_requests
    /\ \E d1, d2 \in Dates :
         /\ err[d1] = "MaximumRetryException"
         /\ last[d2] = "200"

====
